---- MODULE Spec2Model ----
(***************************************************************************)
(* Model of the EduChain MCP server (src/educhain_mcp_server.py): process  *)
(* start-up, registration of the three tools and the two resources, and    *)
(* the statement-level execution of each handler against the external      *)
(* engines (qna_engine.generate_questions, content_engine.                 *)
(* generate_lesson_plan), whose answers are nondeterministic.              *)
(*                                                                         *)
(* Text is a sequence of tokens.  A token is a chunk of characters; the    *)
(* line break is always the token NL of its own, so that lines of a        *)
(* rendered text are what lies between two NL tokens.                      *)
(***************************************************************************)
EXTENDS Integers, Sequences, FiniteSets, TLC

VARIABLES
    api_key,          \* os.getenv("GOOGLE_API_KEY"): "unset", "" or a key
    phase,            \* position of the main program
    educhain_client,  \* self.educhain_client: "None" or "client"
    registered,       \* handlers registered with self.mcp_server
    pc,               \* per invocation: position in the handler
    req,              \* per invocation: the handler's parameters
    calls,            \* per invocation: engine calls made so far
    callArgs,         \* per invocation: arguments of the engine call
    resp,             \* per invocation: what the engine returned
    result,           \* per invocation: the handler's local `result`
    idx,              \* per invocation: loop counter of enumerate(..., 1)
    exc,              \* per invocation: the exception being handled
    ret               \* per invocation: the value returned to the host

vars == <<api_key, phase, educhain_client, registered, pc, req, calls,
          callArgs, resp, result, idx, exc, ret>>

(***************************************************************************)
(* Bounds and program constants                                            *)
(***************************************************************************)
MaxItems == 2         \* longest list an engine answer carries

MinCount == 1         \* lower end of both count ranges
MaxQuestions == 10    \* num_questions upper end
MaxCards == 20        \* num_cards upper end
SampleNum == 3        \* num= of get_sample_questions

Invs1 == {"i1"}               \* one invocation at a time
Invs == {"i1", "i2"}          \* invocations the host may run concurrently

NL == "\n"
IND == "                "     \* the 16 blanks that indent the template lines
BUL == "(U+2022) "            \* bullet prefix of the overview lists: the bullet character and a blank
Whitespace == {" ", "\t", NL}

SeqsUpTo(S, n) == UNION {[1..k -> S] : k \in 0..n}

RECURSIVE Flatten(_)
Flatten(ss) == IF ss = <<>> THEN <<>> ELSE Head(ss) \o Flatten(Tail(ss))

\* sep.join(parts)
RECURSIVE Join(_, _)
Join(sep, parts) ==
    IF parts = <<>> THEN <<>>
    ELSE IF Len(parts) = 1 THEN parts[1]
    ELSE parts[1] \o sep \o Join(sep, Tail(parts))

\* str.strip(): whitespace removed at both ends
RECURSIVE LStrip(_)
LStrip(s) == IF s # <<>> /\ Head(s) \in Whitespace THEN LStrip(Tail(s)) ELSE s
RECURSIVE RStrip(_)
RStrip(s) ==
    IF s # <<>> /\ s[Len(s)] \in Whitespace THEN RStrip(SubSeq(s, 1, Len(s) - 1)) ELSE s
strip(s) == RStrip(LStrip(s))

(***************************************************************************)
(* Python objects.  An object is the record of its attributes; None has    *)
(* none of the attributes the handlers read.                               *)
(***************************************************************************)
None == [isNone |-> TRUE]
HasAttr(o, a) == a \in DOMAIN o

\* the first attribute of attrs (in evaluation order) that o lacks, or ""
FirstMissing(o, attrs) ==
    IF \E k \in 1..Len(attrs) : ~HasAttr(o, attrs[k])
    THEN attrs[CHOOSE k \in 1..Len(attrs) :
                   /\ ~HasAttr(o, attrs[k])
                   /\ \A j \in 1..(k - 1) : HasAttr(o, attrs[j])]
    ELSE ""

NoExc == [kind |-> "none", msg |-> <<>>]
ValueError(m) == [kind |-> "validation", msg |-> m]
AttributeError(a) == [kind |-> "format", msg |-> <<"object has no attribute ", a>>]
EngineError(m) == [kind |-> "engine", msg |-> m]

(***************************************************************************)
(* Parameters the host may pass                                            *)
(***************************************************************************)
Topics == {<<>>, <<" ", "\t">>, <<"Cells">>, <<" ", "Algebra", " ">>}
Counts == (MinCount - 2)..(MaxCards + 2)
Difficulties == {<<"Easy">>, <<"Hard">>}
Instructions == {<<>>, <<"Focus on basics">>}
CardTypes == {<<"Definition">>, <<"QA">>}
\* learning_objectives: None, or a list (held in the field list)
List(l) == [list |-> l]
Objectives == {None, List(<<>>), List(<< <<"Know cells">> >>)}

Tools == {"generate_mcq", "generate_lesson_plan", "generate_flashcards"}
Resources == {"get_topic_overview", "get_sample_questions"}

McqRequests(T, N, D, I) ==
    {[op |-> "generate_mcq", topic |-> t, num_questions |-> n,
      difficulty_level |-> d, custom_instructions |-> c] :
        t \in T, n \in N, d \in D, c \in I}
LessonRequests(T, L) ==
    {[op |-> "generate_lesson_plan", topic |-> t, duration |-> <<"45 minutes">>,
      grade_level |-> <<"High School">>, learning_objectives |-> l] :
        t \in T, l \in L}
FlashcardRequests(T, N, D, C) ==
    {[op |-> "generate_flashcards", topic |-> t, num_cards |-> n,
      difficulty_level |-> d, card_type |-> c] :
        t \in T, n \in N, d \in D, c \in C}
ResourceRequests(T) == {[op |-> o, topic |-> t] : o \in Resources, t \in T}

Requests ==
    McqRequests(Topics, Counts, Difficulties, Instructions)
    \cup LessonRequests(Topics, Objectives)
    \cup FlashcardRequests(Topics, Counts, Difficulties, CardTypes)
    \cup ResourceRequests(Topics)

\* the smaller set of requests run concurrently
ConcRequests ==
    McqRequests({<<>>, <<"Cells">>}, {MinCount}, {<<"Easy">>}, {<<>>})
    \cup LessonRequests({<<"Cells">>}, {None})
    \cup FlashcardRequests({<<"Cells">>}, {MinCount, MaxCards + 1}, {<<"Hard">>}, {<<"QA">>})
    \cup ResourceRequests({<<"Cells">>})

(***************************************************************************)
(* What the engines may answer                                             *)
(***************************************************************************)
Q1 == [question |-> <<"What is 2+2?">>, options |-> << <<"3">>, <<"4">> >>,
       correct_answer |-> <<"4">>, explanation |-> <<"Arithmetic">>]
Q2 == [question |-> <<"Define a cell">>, options |-> <<>>,
       correct_answer |-> <<"Unit of life">>, explanation |-> <<"Biology">>]
\* a malformed item: no correct_answer, no explanation
QBad == [question |-> <<"Broken?">>, options |-> << <<"x">> >>]
Items == {Q1, Q2, QBad}
WellFormed(q) == FirstMissing(q, <<"question", "options", "correct_answer", "explanation">>) = ""

ErrMsgs == {<<>>, <<"quota exceeded">>}

ObjTexts == {<<"Know cells">>, <<"Use cells">>, <<"Know", NL, "Use">>}
MatTexts == {<<"Book">>, <<"Pen">>}
Lesson(o, m) ==
    [title |-> <<"Cells 101">>, objectives |-> o, materials |-> m,
     introduction |-> <<"Cells are small">>, main_content |-> <<"Main">>,
     activities |-> << <<"Draw a cell">> >>, assessment |-> <<"Quiz">>,
     conclusion |-> <<"Bye">>]
\* a malformed lesson plan: no assessment, no conclusion
LessonBad ==
    [title |-> <<"Cells 101">>, objectives |-> << <<"Know cells">> >>,
     materials |-> <<>>, introduction |-> <<"Cells are small">>,
     main_content |-> <<"Main">>, activities |-> <<>>]

Raises(M) == {[kind |-> "raise", msg |-> m] : m \in M}
Returns(V) == {[kind |-> "return", value |-> v] : v \in V}

QnaOutcomes(I, M) ==
    Raises(M) \cup Returns({None})
    \cup Returns({[questions |-> qs] : qs \in SeqsUpTo(I, MaxItems)})
ContentOutcomes(O, Mt, M) ==
    Raises(M) \cup Returns({None, LessonBad})
    \cup Returns({Lesson(o, m) : o \in SeqsUpTo(O, MaxItems), m \in SeqsUpTo(Mt, MaxItems)})

EngineOf(op) ==
    IF op \in {"generate_lesson_plan", "get_topic_overview"} THEN "content_engine"
    ELSE "qna_engine"

Outcomes(op) ==
    IF EngineOf(op) = "content_engine" THEN ContentOutcomes(ObjTexts, MatTexts, ErrMsgs)
    ELSE QnaOutcomes(Items, ErrMsgs)
ConcOutcomes(op) ==
    IF EngineOf(op) = "content_engine"
    THEN ContentOutcomes({<<"Know cells">>}, {}, {<<"quota exceeded">>})
    ELSE QnaOutcomes({Q1, QBad}, {<<"quota exceeded">>})

(***************************************************************************)
(* Input validation, at the head of each try block                         *)
(***************************************************************************)
\* the lower end tested against 0 instead of 1
generate_mcq_validate_from_zero(r) ==
    IF strip(r.topic) = <<>> THEN ValueError(<<"Topic cannot be empty">>)
    ELSE IF r.num_questions < 0 \/ r.num_questions > MaxQuestions
    THEN ValueError(<<"Number of questions must be between 1 and 10">>)
    ELSE NoExc

generate_mcq_validate(r) ==
    IF strip(r.topic) = <<>> THEN ValueError(<<"Topic cannot be empty">>)
    ELSE IF r.num_questions < MinCount \/ r.num_questions > MaxQuestions
    THEN ValueError(<<"Number of questions must be between 1 and 10">>)
    ELSE NoExc

generate_lesson_plan_validate(r) ==
    IF strip(r.topic) = <<>> THEN ValueError(<<"Topic cannot be empty">>) ELSE NoExc

\* the range test copied from generate_mcq with its upper end
generate_flashcards_validate_mcq_range(r) ==
    IF strip(r.topic) = <<>> THEN ValueError(<<"Topic cannot be empty">>)
    ELSE IF r.num_cards < MinCount \/ r.num_cards > MaxQuestions
    THEN ValueError(<<"Number of cards must be between 1 and 20">>)
    ELSE NoExc

generate_flashcards_validate(r) ==
    IF strip(r.topic) = <<>> THEN ValueError(<<"Topic cannot be empty">>)
    ELSE IF r.num_cards < MinCount \/ r.num_cards > MaxCards
    THEN ValueError(<<"Number of cards must be between 1 and 20">>)
    ELSE NoExc

\* the two resource handlers go straight to the engine
resource_validate(r) == NoExc

ValidationError(r) ==
    CASE r.op = "generate_mcq" -> generate_mcq_validate(r)
      [] r.op = "generate_lesson_plan" -> generate_lesson_plan_validate(r)
      [] r.op = "generate_flashcards" -> generate_flashcards_validate(r)
      [] OTHER -> resource_validate(r)

(***************************************************************************)
(* The arguments each handler passes to its engine                         *)
(***************************************************************************)
NoCall == [engine |-> "none"]

\* learning_objectives or []
OrEmpty(l) == IF l = None \/ l.list = <<>> THEN <<>> ELSE l.list

EngineRequest(r) ==
    CASE r.op = "generate_mcq" ->
           [engine |-> "qna_engine", topic |-> r.topic, num |-> r.num_questions,
            question_type |-> "Multiple Choice",
            difficulty_level |-> r.difficulty_level,
            custom_instructions |-> r.custom_instructions]
      [] r.op = "generate_lesson_plan" ->
           [engine |-> "content_engine", topic |-> r.topic, duration |-> r.duration,
            grade_level |-> r.grade_level,
            learning_objectives |-> OrEmpty(r.learning_objectives)]
      [] r.op = "generate_flashcards" ->
           [engine |-> "qna_engine", topic |-> r.topic, num |-> r.num_cards,
            question_type |-> "Short Answer",
            difficulty_level |-> r.difficulty_level,
            custom_instructions |-> <<"Create ">> \o r.card_type \o <<" flashcards">>,
            prompt_template |-> "custom_template"]
      [] r.op = "get_topic_overview" ->
           [engine |-> "content_engine", topic |-> r.topic,
            duration |-> <<"Overview">>, grade_level |-> <<"General">>]
      [] r.op = "get_sample_questions" ->
           [engine |-> "qna_engine", topic |-> r.topic, num |-> SampleNum,
            question_type |-> "Multiple Choice", difficulty_level |-> <<"Medium">>]

(***************************************************************************)
(* Formatting of the engine's answer                                       *)
(***************************************************************************)
NoResult == [none |-> TRUE]
Text(t) == [text |-> t]

Raised(res, e) == [next |-> "except", result |-> res, exc |-> e]
Goes(to, res) == [next |-> to, result |-> res, exc |-> NoExc]

\* the count asked for in place of the count returned
mcq_header_requested(r, rsp) ==
    [success |-> TRUE, topic |-> r.topic, num_questions |-> r.num_questions,
     difficulty_level |-> r.difficulty_level, questions |-> <<>>]

mcq_header(r, rsp) ==
    [success |-> TRUE, topic |-> r.topic, num_questions |-> Len(rsp.questions),
     difficulty_level |-> r.difficulty_level, questions |-> <<>>]

mcq_entry(i, q) ==
    [question_number |-> i, question |-> q.question, options |-> q.options,
     correct_answer |-> q.correct_answer, explanation |-> q.explanation]

flashcards_header(r, rsp) ==
    [success |-> TRUE, topic |-> r.topic, num_cards |-> Len(rsp.questions),
     difficulty_level |-> r.difficulty_level, card_type |-> r.card_type,
     flashcards |-> <<>>]

\* front and back exchanged
flashcard_entry_swapped(r, i, q) ==
    [card_number |-> i, front |-> q.correct_answer, back |-> q.question,
     category |-> r.topic, difficulty |-> r.difficulty_level]

flashcard_entry(r, i, q) ==
    [card_number |-> i, front |-> q.question, back |-> q.correct_answer,
     category |-> r.topic, difficulty |-> r.difficulty_level]

lesson_plan_result(r, lesson) ==
    [success |-> TRUE, topic |-> r.topic, duration |-> r.duration,
     grade_level |-> r.grade_level,
     lesson_plan |->
        [title |-> lesson.title, objectives |-> lesson.objectives,
         materials |-> lesson.materials, introduction |-> lesson.introduction,
         main_content |-> lesson.main_content, activities |-> lesson.activities,
         assessment |-> lesson.assessment, conclusion |-> lesson.conclusion]]

\* f"(bullet) {obj}" for obj in xs
Bulleted(xs) == [k \in 1..Len(xs) |-> <<BUL>> \o xs[k]]

overview_text(topic, overview) ==
    <<NL, IND, "Topic Overview: ">> \o topic
    \o <<NL, IND, NL, IND, "Description: ">> \o overview.introduction
    \o <<NL, IND, NL, IND, "Key Concepts:", NL, IND>>
    \o Join(<<NL>>, Bulleted(overview.objectives))
    \o <<NL, IND, NL, IND, "Materials Needed:", NL, IND>>
    \o Join(<<NL>>, Bulleted(overview.materials))
    \o <<NL, IND, NL, IND, "Assessment Methods:", NL, IND>> \o overview.assessment
    \o <<NL, IND>>

sample_header(topic) == <<"Sample Questions for: ">> \o topic \o <<NL, NL>>
sample_question_line(i, q) == <<"Question ", ToString(i), ": ">> \o q.question \o <<NL>>
sample_option_lines(q) ==
    Flatten([j \in 1..Len(q.options) |->
                <<"  ", ToString(j), ". ">> \o q.options[j] \o <<NL>>])
sample_answer_line(q) == <<"Correct Answer: ">> \o q.correct_answer \o <<NL>>
sample_explanation_line(q) == <<"Explanation: ">> \o q.explanation \o <<NL, NL>>

\* the statements after the engine call, up to the loop or the return
FormatStart(r, rsp) ==
    CASE r.op = "generate_mcq" ->
           IF ~HasAttr(rsp, "questions") THEN Raised(NoResult, AttributeError("questions"))
           ELSE Goes("loop", mcq_header(r, rsp))
      [] r.op = "generate_flashcards" ->
           IF ~HasAttr(rsp, "questions") THEN Raised(NoResult, AttributeError("questions"))
           ELSE Goes("loop", flashcards_header(r, rsp))
      [] r.op = "get_sample_questions" -> Goes("loop", Text(sample_header(r.topic)))
      [] r.op = "generate_lesson_plan" ->
           LET miss == FirstMissing(rsp, <<"title", "objectives", "materials",
                           "introduction", "main_content", "activities",
                           "assessment", "conclusion">>)
           IN  IF miss # "" THEN Raised(NoResult, AttributeError(miss))
               ELSE Goes("return", lesson_plan_result(r, rsp))
      [] r.op = "get_topic_overview" ->
           LET miss == FirstMissing(rsp, <<"introduction", "objectives",
                           "materials", "assessment">>)
           IN  IF miss # "" THEN Raised(NoResult, AttributeError(miss))
               ELSE Goes("return", Text(overview_text(r.topic, rsp)))

\* one pass of `for i, q in enumerate(questions.questions, 1)`, i = k
LoopBody(r, rsp, res, k) ==
    IF ~HasAttr(rsp, "questions") THEN Raised(res, AttributeError("questions"))
    ELSE IF k > Len(rsp.questions) THEN Goes("return", res)
    ELSE LET q == rsp.questions[k] IN
      CASE r.op = "generate_mcq" ->
             LET miss == FirstMissing(q, <<"question", "options", "correct_answer",
                                           "explanation">>)
             IN  IF miss # "" THEN Raised(res, AttributeError(miss))
                 ELSE Goes("loop", [res EXCEPT !.questions = Append(@, mcq_entry(k, q))])
        [] r.op = "generate_flashcards" ->
             LET miss == FirstMissing(q, <<"question", "correct_answer">>)
             IN  IF miss # "" THEN Raised(res, AttributeError(miss))
                 ELSE Goes("loop", [res EXCEPT !.flashcards = Append(@, flashcard_entry(r, k, q))])
        [] r.op = "get_sample_questions" ->
             IF ~HasAttr(q, "question") THEN Raised(res, AttributeError("question"))
             ELSE LET t1 == res.text \o sample_question_line(k, q) IN
             IF ~HasAttr(q, "options") THEN Raised(Text(t1), AttributeError("options"))
             ELSE LET t2 == t1 \o sample_option_lines(q) IN
             IF ~HasAttr(q, "correct_answer")
             THEN Raised(Text(t2), AttributeError("correct_answer"))
             ELSE LET t3 == t2 \o sample_answer_line(q) IN
             IF ~HasAttr(q, "explanation")
             THEN Raised(Text(t3), AttributeError("explanation"))
             ELSE Goes("loop", Text(t3 \o sample_explanation_line(q)))

\* the except blocks
tool_failure(r, e) == [success |-> FALSE, error |-> e.msg, topic |-> r.topic]
overview_failure(r, e) ==
    Text(<<"Error retrieving overview for ">> \o r.topic \o <<": ">> \o e.msg)
sample_failure(r, e) ==
    Text(<<"Error retrieving sample questions for ">> \o r.topic \o <<": ">> \o e.msg)

Failure(r, e) ==
    CASE r.op \in Tools -> tool_failure(r, e)
      [] r.op = "get_topic_overview" -> overview_failure(r, e)
      [] r.op = "get_sample_questions" -> sample_failure(r, e)

(***************************************************************************)
(* The process: start-up, registration, serving                            *)
(***************************************************************************)
NoReq == [op |-> "none"]
NoResp == [unset |-> TRUE]
NoRet == [none |-> TRUE]

Upd(f, i, v) == [f EXCEPT ![i] = v]

\* the test of the key left out
KeyNeverMissing(k) == FALSE

\* `not api_key`: os.getenv gave None or the empty string
KeyMissing(k) == k \in {"unset", ""}

\* `result` kept in one place for all invocations
ResultOwnerShared(i) == "i1"

\* `result` is a local of the running handler: each invocation has its own
ResultOwner(i) == i

Init ==
    /\ api_key \in {"unset", "", "key"}
    /\ phase = "boot"
    /\ educhain_client = "None"
    /\ registered = {}
    /\ pc = [i \in Invs |-> "idle"]
    /\ req = [i \in Invs |-> NoReq]
    /\ calls = [i \in Invs |-> 0]
    /\ callArgs = [i \in Invs |-> NoCall]
    /\ resp = [i \in Invs |-> NoResp]
    /\ result = [i \in Invs |-> NoResult]
    /\ idx = [i \in Invs |-> 0]
    /\ exc = [i \in Invs |-> NoExc]
    /\ ret = [i \in Invs |-> NoRet]

locals == <<pc, req, calls, callArgs, resp, result, idx, exc, ret>>

\* EduChainMCPServer(): a missing key, or a constructor that raises, ends the
\* process through the handler of __main__ (exit(1))
InitializeComponents ==
    /\ phase = "boot"
    /\ IF KeyMissing(api_key)
       THEN phase' = "exited" /\ UNCHANGED educhain_client
       ELSE \E ok \in BOOLEAN :
              IF ok THEN phase' = "initialized" /\ educhain_client' = "client"
              ELSE phase' = "exited" /\ UNCHANGED educhain_client
    /\ UNCHANGED <<api_key, registered, locals>>

setup_tools ==
    /\ phase = "initialized"
    /\ registered' = registered \cup Tools
    /\ phase' = "tools"
    /\ UNCHANGED <<api_key, educhain_client, locals>>

setup_resources ==
    /\ phase = "tools"
    /\ registered' = registered \cup Resources
    /\ phase' = "resources"
    /\ UNCHANGED <<api_key, educhain_client, locals>>

\* self.mcp_server.run()
run_server ==
    /\ phase = "resources"
    /\ phase' = "serving"
    /\ UNCHANGED <<api_key, educhain_client, registered, locals>>

server == <<api_key, phase, educhain_client, registered>>

(***************************************************************************)
(* One invocation of a handler, statement by statement                     *)
(***************************************************************************)
\* the host calls a registered handler with parameters r
Dispatch(i, r) ==
    /\ phase = "serving"
    /\ r.op \in registered
    /\ pc[i] = "idle"
    /\ pc' = Upd(pc, i, "try")
    /\ req' = Upd(req, i, r)
    /\ UNCHANGED <<server, calls, callArgs, resp, result, idx, exc, ret>>

Validate(i) ==
    /\ pc[i] = "try"
    /\ LET e == ValidationError(req[i]) IN
         /\ exc' = Upd(exc, i, e)
         /\ pc' = Upd(pc, i, IF e = NoExc THEN "call" ELSE "except")
    /\ UNCHANGED <<server, req, calls, callArgs, resp, result, idx, ret>>

\* the call of self.educhain_client.<engine>.<generate>; o is its outcome
EngineCall(i, o) ==
    /\ pc[i] = "call"
    /\ educhain_client = "client"
    /\ calls' = Upd(calls, i, calls[i] + 1)
    /\ callArgs' = Upd(callArgs, i, EngineRequest(req[i]))
    /\ IF o.kind = "raise"
       THEN /\ exc' = Upd(exc, i, EngineError(o.msg))
            /\ pc' = Upd(pc, i, "except")
            /\ UNCHANGED resp
       ELSE /\ resp' = Upd(resp, i, o.value)
            /\ pc' = Upd(pc, i, "format")
            /\ UNCHANGED exc
    /\ UNCHANGED <<server, req, result, idx, ret>>

Format(i) ==
    /\ pc[i] = "format"
    /\ LET f == FormatStart(req[i], resp[i]) IN
         /\ result' = Upd(result, ResultOwner(i), f.result)
         /\ exc' = Upd(exc, i, f.exc)
         /\ pc' = Upd(pc, i, f.next)
         /\ idx' = Upd(idx, i, IF f.next = "loop" THEN 1 ELSE idx[i])
    /\ UNCHANGED <<server, req, calls, callArgs, resp, ret>>

Loop(i) ==
    /\ pc[i] = "loop"
    /\ LET l == LoopBody(req[i], resp[i], result[ResultOwner(i)], idx[i]) IN
         /\ result' = Upd(result, ResultOwner(i), l.result)
         /\ exc' = Upd(exc, i, l.exc)
         /\ pc' = Upd(pc, i, l.next)
         /\ idx' = Upd(idx, i, IF l.next = "loop" THEN idx[i] + 1 ELSE idx[i])
    /\ UNCHANGED <<server, req, calls, callArgs, resp, ret>>

\* return result
Return(i) ==
    /\ pc[i] = "return"
    /\ ret' = Upd(ret, i, result[ResultOwner(i)])
    /\ pc' = Upd(pc, i, "done")
    /\ UNCHANGED <<server, req, calls, callArgs, resp, result, idx, exc>>

\* the except block returning what was built so far
ExceptReturnsPartial(i) ==
    /\ pc[i] = "except"
    /\ ret' = Upd(ret, i, IF result[ResultOwner(i)] = NoResult
                          THEN Failure(req[i], exc[i])
                          ELSE result[ResultOwner(i)])
    /\ pc' = Upd(pc, i, "done")
    /\ UNCHANGED <<server, req, calls, callArgs, resp, result, idx, exc>>

\* except Exception as e: ... return the failure value
Except(i) ==
    /\ pc[i] = "except"
    /\ ret' = Upd(ret, i, Failure(req[i], exc[i]))
    /\ pc' = Upd(pc, i, "done")
    /\ UNCHANGED <<server, req, calls, callArgs, resp, result, idx, exc>>

\* the host has the response; the invocation's locals are gone
Complete(i) ==
    /\ pc[i] = "done"
    /\ pc' = Upd(pc, i, "idle")
    /\ req' = Upd(req, i, NoReq)
    /\ calls' = Upd(calls, i, 0)
    /\ callArgs' = Upd(callArgs, i, NoCall)
    /\ resp' = Upd(resp, i, NoResp)
    /\ result' = Upd(result, ResultOwner(i), NoResult)
    /\ idx' = Upd(idx, i, 0)
    /\ exc' = Upd(exc, i, NoExc)
    /\ ret' = Upd(ret, i, NoRet)
    /\ UNCHANGED server

Startup == InitializeComponents \/ setup_tools \/ setup_resources \/ run_server

Handler(i) ==
    Validate(i) \/ Format(i) \/ Loop(i) \/ Return(i) \/ Except(i) \/ Complete(i)

\* the host picks the parameters; the engine picks its answer
Invoke(i, R) == pc[i] = "idle" /\ \E r \in R : Dispatch(i, r)
Call(i, O) == pc[i] = "call" /\ \E o \in O : EngineCall(i, o)

\* one invocation at a time, all parameters and all engine answers
Next ==
    \/ Startup
    \/ \E i \in Invs1 : Invoke(i, Requests) \/ Call(i, Outcomes(req[i].op)) \/ Handler(i)

Spec == Init /\ [][Next]_vars

\* concurrent invocations, fewer parameters and engine answers
NextConc ==
    \/ Startup
    \/ \E i \in Invs : Invoke(i, ConcRequests) \/ Call(i, ConcOutcomes(req[i].op)) \/ Handler(i)

SpecConc == Init /\ [][NextConc]_vars

(***************************************************************************)
(* Vocabulary of the properties                                            *)
(***************************************************************************)
Blank(t) == \A k \in 1..Len(t) : t[k] \in Whitespace
IsTool(i) == req[i].op \in Tools
IsResource(i) == req[i].op \in Resources
ErrorPrefix(op) ==
    IF op = "get_topic_overview" THEN "Error retrieving overview for "
    ELSE "Error retrieving sample questions for "

Contains(t, s) ==
    \E k \in 0..(Len(t) - Len(s)) : SubSeq(t, k + 1, k + Len(s)) = s

\* the lines of a text: what lies between its line breaks
RECURSIVE SplitLines(_, _)
SplitLines(t, cur) ==
    IF t = <<>> THEN <<cur>>
    ELSE IF Head(t) = NL THEN <<cur>> \o SplitLines(Tail(t), <<>>)
    ELSE SplitLines(Tail(t), Append(cur, Head(t)))
Lines(t) == SplitLines(t, <<>>)

Unindented(line) == IF line # <<>> /\ Head(line) = IND THEN Tail(line) ELSE line
IsBulleted(line) == Unindented(line) # <<>> /\ Head(Unindented(line)) = BUL
\* what the bulleted lines of a text carry after the bullet prefix, in order
BulletItems(t) ==
    LET bl == SelectSeq(Lines(t), IsBulleted)
    IN  [k \in 1..Len(bl) |-> Tail(Unindented(bl[k]))]

IsLessonPlan(o) ==
    FirstMissing(o, <<"title", "objectives", "materials", "introduction",
                      "main_content", "activities", "assessment", "conclusion">>) = ""
HasItems(o) == HasAttr(o, "questions")
AllWellFormed(o) == HasItems(o) /\ \A k \in 1..Len(o.questions) : WellFormed(o.questions[k])

(***************************************************************************)
(* C1: a blank topic (empty or whitespace only) makes every operation fail *)
(* without an engine call: the tools return success = false, the resources *)
(* return the failure text with the topic.                                 *)
(***************************************************************************)
C1_BlankTopicRejected ==
    \A i \in Invs :
        (pc[i] = "done" /\ Blank(req[i].topic)) =>
            /\ calls[i] = 0
            /\ IsTool(i) => ret[i].success = FALSE
            /\ IsResource(i) =>
                 /\ Head(ret[i].text) = ErrorPrefix(req[i].op)
                 /\ Contains(ret[i].text, req[i].topic)

(***************************************************************************)
(* C2: generate_mcq with num_questions outside 1..10 never reaches the     *)
(* engine and returns success = false; with num_questions inside 1..10 and *)
(* a non-blank topic the validation raises nothing.                        *)
(***************************************************************************)
C2_McqCountValidated ==
    \A i \in Invs :
        req[i].op = "generate_mcq" =>
            /\ req[i].num_questions \notin 1..10 =>
                 /\ calls[i] = 0
                 /\ pc[i] \in {"try", "except", "done"}
                 /\ pc[i] = "done" => ret[i].success = FALSE
            /\ (req[i].num_questions \in 1..10 /\ ~Blank(req[i].topic)) =>
                 /\ exc[i].kind # "validation"
                 /\ pc[i] = "done" => calls[i] = 1

C2_Witness ==
    \E i \in Invs :
        /\ req[i].op = "generate_mcq" /\ pc[i] = "done"
        /\ req[i].num_questions = 11 /\ ~Blank(req[i].topic)
        /\ ret[i].success = FALSE /\ calls[i] = 0

(***************************************************************************)
(* C3: generate_flashcards with num_cards outside 1..20 never reaches the  *)
(* engine and returns success = false; with num_cards inside 1..20 and a   *)
(* non-blank topic the validation raises nothing.                          *)
(***************************************************************************)
C3_CardCountValidated ==
    \A i \in Invs :
        req[i].op = "generate_flashcards" =>
            /\ req[i].num_cards \notin 1..20 =>
                 /\ calls[i] = 0
                 /\ pc[i] \in {"try", "except", "done"}
                 /\ pc[i] = "done" => ret[i].success = FALSE
            /\ (req[i].num_cards \in 1..20 /\ ~Blank(req[i].topic)) =>
                 /\ exc[i].kind # "validation"
                 /\ pc[i] = "done" => calls[i] = 1

C3_Witness ==
    \E i \in Invs :
        /\ req[i].op = "generate_flashcards" /\ pc[i] = "done"
        /\ req[i].num_cards = 21 /\ ~Blank(req[i].topic)
        /\ ret[i].success = FALSE /\ calls[i] = 0

(***************************************************************************)
(* C4: when the engine raises, the operation returns a failure that        *)
(* carries the topic and a non-empty error message: the mapping            *)
(* {success: false, error, topic} for a tool, the error prefix with the    *)
(* topic followed by the message for a resource.                           *)
(***************************************************************************)
C4_EngineFailureReported ==
    \A i \in Invs :
        (pc[i] = "done" /\ exc[i].kind = "engine") =>
            /\ IsTool(i) =>
                 /\ ret[i] = [success |-> FALSE, error |-> exc[i].msg,
                              topic |-> req[i].topic]
                 /\ ret[i].error # <<>>
            /\ IsResource(i) =>
                 LET pre == <<ErrorPrefix(req[i].op)>> \o req[i].topic \o <<": ">>
                 IN  /\ ret[i].text = pre \o exc[i].msg
                     /\ Len(ret[i].text) > Len(pre)

(***************************************************************************)
(* C5: from N well-formed items generate_mcq returns success with          *)
(* num_questions = N (the count returned, not the count asked for), the    *)
(* topic and difficulty_level of the call, and N entries in the engine's   *)
(* order, entry k numbered k and carrying the k-th item's question,        *)
(* options, correct_answer and explanation.                                *)
(***************************************************************************)
C5_McqResultShape ==
    \A i \in Invs :
        (req[i].op = "generate_mcq" /\ pc[i] = "done" /\ AllWellFormed(resp[i])) =>
            LET qs == resp[i].questions IN
            ret[i] = [success |-> TRUE, topic |-> req[i].topic,
                      num_questions |-> Len(qs),
                      difficulty_level |-> req[i].difficulty_level,
                      questions |->
                         [k \in 1..Len(qs) |->
                            [question_number |-> k, question |-> qs[k].question,
                             options |-> qs[k].options,
                             correct_answer |-> qs[k].correct_answer,
                             explanation |-> qs[k].explanation]]]

C5_Witness ==
    \E i \in Invs :
        /\ req[i].op = "generate_mcq" /\ pc[i] = "done" /\ AllWellFormed(resp[i])
        /\ Len(resp[i].questions) = 2 /\ req[i].num_questions = 5
        /\ resp[i].questions[1] # resp[i].questions[2]
        /\ ret[i].success = TRUE

(***************************************************************************)
(* C6: get_topic_overview asks for a lesson plan with duration "Overview"  *)
(* and grade_level "General", and in its text every objective and every    *)
(* material is one bulleted line, in the engine's order, none dropped or   *)
(* merged, and the introduction and the assessment appear verbatim.        *)
(***************************************************************************)
C6_OverviewBullets ==
    \A i \in Invs :
        (req[i].op = "get_topic_overview" /\ pc[i] = "done" /\ IsLessonPlan(resp[i])) =>
            /\ callArgs[i].duration = <<"Overview">>
            /\ callArgs[i].grade_level = <<"General">>
            /\ BulletItems(ret[i].text) = resp[i].objectives \o resp[i].materials
            /\ Contains(ret[i].text, resp[i].introduction)
            /\ Contains(ret[i].text, resp[i].assessment)

(***************************************************************************)
(* C7: with the API key absent from the environment the process ends in    *)
(* initialization: nothing is ever registered, served or invoked, and no   *)
(* engine exists to be called.                                             *)
(***************************************************************************)
C7_NoKeyNoService ==
    api_key = "unset" =>
        /\ phase \in {"boot", "exited"}
        /\ registered = {}
        /\ educhain_client = "None"
        /\ \A i \in Invs : pc[i] = "idle" /\ calls[i] = 0

C7_Witness == api_key = "unset" /\ phase = "exited"

\* what a complete success and a failure without content look like
CompleteSuccess(i) ==
    LET r == req[i]  o == resp[i]  v == ret[i] IN
    CASE r.op = "generate_mcq" ->
           /\ AllWellFormed(o) /\ v.success = TRUE
           /\ Len(v.questions) = Len(o.questions)
           /\ \A k \in 1..Len(o.questions) : v.questions[k].question = o.questions[k].question
      [] r.op = "generate_flashcards" ->
           /\ HasItems(o) /\ v.success = TRUE
           /\ Len(v.flashcards) = Len(o.questions)
           /\ \A k \in 1..Len(o.questions) : v.flashcards[k].front = o.questions[k].question
      [] r.op = "generate_lesson_plan" ->
           IsLessonPlan(o) /\ v.success = TRUE /\ v.lesson_plan = o
      [] r.op = "get_topic_overview" ->
           /\ \A a \in {"introduction", "objectives", "materials", "assessment"} : HasAttr(o, a)
           /\ Head(v.text) # ErrorPrefix(r.op)
           /\ Contains(v.text, o.introduction) /\ Contains(v.text, o.assessment)
           /\ \A k \in 1..Len(o.objectives) : Contains(v.text, <<BUL>> \o o.objectives[k])
           /\ \A k \in 1..Len(o.materials) : Contains(v.text, <<BUL>> \o o.materials[k])
      [] r.op = "get_sample_questions" ->
           /\ AllWellFormed(o)
           /\ v.text = sample_header(r.topic) \o
                 Flatten([k \in 1..Len(o.questions) |->
                            sample_question_line(k, o.questions[k])
                            \o sample_option_lines(o.questions[k])
                            \o sample_answer_line(o.questions[k])
                            \o sample_explanation_line(o.questions[k])])

CleanFailure(i) ==
    IF IsTool(i)
    THEN ret[i] = [success |-> FALSE, error |-> exc[i].msg, topic |-> req[i].topic]
    ELSE ret[i].text = <<ErrorPrefix(req[i].op)>> \o req[i].topic \o <<": ">> \o exc[i].msg

(***************************************************************************)
(* C8: an invocation calls the engine at most once, and what it returns is *)
(* either the complete success (every item of the engine's answer is in    *)
(* it) or a failure that carries nothing of the generated content, also    *)
(* when the formatting fails after some items were formatted.              *)
(***************************************************************************)
C8_AllOrNothing ==
    \A i \in Invs :
        /\ calls[i] <= 1
        /\ pc[i] = "done" =>
             \/ exc[i] = NoExc /\ CompleteSuccess(i)
             \/ exc[i] # NoExc /\ CleanFailure(i)

\* a failure in the middle of the formatting: the first item was formatted
C8_Witness ==
    \E i \in Invs :
        /\ req[i].op = "get_sample_questions" /\ pc[i] = "done" /\ HasItems(resp[i])
        /\ Len(resp[i].questions) = 2
        /\ WellFormed(resp[i].questions[1]) /\ ~WellFormed(resp[i].questions[2])
        /\ Contains(result[i].text, resp[i].questions[1].question)
        /\ ~Contains(ret[i].text, resp[i].questions[1].question)

\* the handler run from validation to return with nothing interleaved
RECURSIVE RunLoop(_, _, _, _)
RunLoop(r, rsp, res, k) ==
    LET l == LoopBody(r, rsp, res, k)
    IN  IF l.next = "loop" THEN RunLoop(r, rsp, l.result, k + 1) ELSE l

RunAlone(r, e, rsp) ==
    IF ValidationError(r) # NoExc THEN Failure(r, ValidationError(r))
    ELSE IF rsp = NoResp THEN Failure(r, e)
    ELSE LET f == FormatStart(r, rsp)
             l == IF f.next = "loop" THEN RunLoop(r, rsp, f.result, 1) ELSE f
         IN  IF l.next = "except" THEN Failure(r, l.exc) ELSE l.result

(***************************************************************************)
(* C9: under every interleaving of concurrent invocations each one returns *)
(* what it would return run alone on its parameters and its engine answer, *)
(* an idle invocation's locals are untouched, and the server's state stays *)
(* as start-up left it.                                                    *)
(***************************************************************************)
C9_SelfContained ==
    /\ \A i \in Invs :
         /\ pc[i] = "done" => ret[i] = RunAlone(req[i], exc[i], resp[i])
         /\ pc[i] = "idle" =>
              /\ req[i] = NoReq /\ calls[i] = 0 /\ callArgs[i] = NoCall
              /\ resp[i] = NoResp /\ result[i] = NoResult /\ idx[i] = 0
              /\ exc[i] = NoExc /\ ret[i] = NoRet
    /\ phase = "serving" =>
         educhain_client = "client" /\ registered = Tools \cup Resources

\* one invocation has returned a success while the other is inside its loop
C9_Witness ==
    /\ pc["i1"] = "done" /\ req["i1"].op = "generate_mcq" /\ ret["i1"].success = TRUE
    /\ Len(ret["i1"].questions) = 2
    /\ pc["i2"] = "loop" /\ idx["i2"] = 2 /\ req["i2"].op = "generate_flashcards"

(***************************************************************************)
(* C10: from N short-answer items generate_flashcards returns success with *)
(* N cards in the engine's order, card k numbered k with front = the k-th  *)
(* item's question, back = its correct answer, category = the topic and    *)
(* difficulty = the difficulty_level of the call, and no other field.      *)
(***************************************************************************)
C10_FlashcardShape ==
    \A i \in Invs :
        (req[i].op = "generate_flashcards" /\ pc[i] = "done" /\ AllWellFormed(resp[i])) =>
            LET qs == resp[i].questions IN
            /\ ret[i].success = TRUE
            /\ ret[i].flashcards =
                 [k \in 1..Len(qs) |->
                    [card_number |-> k, front |-> qs[k].question,
                     back |-> qs[k].correct_answer, category |-> req[i].topic,
                     difficulty |-> req[i].difficulty_level]]
            /\ \A k \in 1..Len(qs) :
                 DOMAIN ret[i].flashcards[k] \cap {"options", "explanation"} = {}

C10_Witness ==
    \E i \in Invs :
        /\ req[i].op = "generate_flashcards" /\ pc[i] = "done" /\ AllWellFormed(resp[i])
        /\ Len(resp[i].questions) = 2 /\ resp[i].questions[1] # resp[i].questions[2]
        /\ Len(ret[i].flashcards) = 2

====
